---- MODULE Spec2Model ----
(***************************************************************************)
(* Playback timeline engine of the animated pixel-noise generator          *)
(* (PixelNoiseGenerator component and the RetroViewer transport handlers). *)
(*                                                                         *)
(* Time is counted in thirds of a millisecond, so that fixedDt = 1000/speed *)
(* is a whole number for the speeds used (10 and 30 fps); Ms(n) converts.   *)
(* JavaScript computes these values in double precision; the model uses     *)
(* exact arithmetic.                                                        *)
(*                                                                         *)
(* The pixels a render puts on the canvas are modelled for the pattern      *)
(* 'pixels' and the fallback of the pattern switch, in the colour modes     *)
(* 'monochrome' and 'rgb', and for the distortions 'none',                  *)
(* 'chromatic-aberration', 'vortex', 'fisheye' and the tags without a case. *)
(* They are followed in SpecRender and SpecDistort and left aside in the    *)
(* other specifications, whose claims are about the frame index, the        *)
(* timeline window and the scheduler.                                       *)
(***************************************************************************)
EXTENDS Integers, Sequences, FiniteSets, TLC

VARIABLES
    baseSeedRef,            \* useRef: base seed of the session
    absoluteFrameRef,       \* useRef: absolute frame index
    droppedFramesRef,       \* useRef: dropped frame counter
    lastFrameCountRef,      \* useRef: frame index at the last fps sample
    lastFpsUpdateTimeRef,   \* useRef: timestamp of the last fps sample
    actualFpsRef,           \* useRef: last fps sample
    windowStartFrameRef,    \* useRef: timeline window start
    windowSizeRef,          \* useRef: timeline window size
    canvas,                 \* [width, height] of the canvas element
    context,                \* whether canvasRef.current.getContext('2d') gives a context
    host,                   \* the animation frame callbacks the host has pending, each
                            \* with its request id and the run of the effect (loop) that
                            \* made it; animationFrameRef; the current loop (0 = none);
                            \* the closures of torn-down loops with a callback pending
    lastTime,               \* effect closure: timestamp of the previous tick (0 = none yet)
    accumulator,            \* effect closure: fixed-timestep accumulator
    props,                  \* [isPaused, speed, seed, pixelSize, colorMode, pattern,
                            \* patternParams, distortion, distortionParams] handed to
                            \* the component
    effectProps,            \* the props of the render in which the animation effect last
                            \* ran: what animate, updateCanvasSize and the renderFrame
                            \* they call have closed over
    renderedWith,           \* history: the settings the last render read, <<>> before
                            \* the first one
    clock,                  \* the host's monotonic clock
    rngState,               \* state a of the generator the last render left behind
    pixels,                 \* the pixel buffer the last render put on the canvas
    staged,                 \* history: the image data and the generator state the last
                            \* render handed to applyDistortion, <<>> before the first one
    remembered,             \* history: one earlier render (its seed, frame, size
                            \* and buffer), and whether it has been rendered again since
    last,                   \* history: the last operation and its input; for a
                            \* stepForward and a stepBackward right after it, the
                            \* frame index before the stepForward
    exporter                \* useGifExport: gifRef and abortControllerRef (0 = null), the
                            \* abort controllers aborted, the encoders and the calls of
                            \* exportGif made so far, each with the number of the call
                            \* that created it; history: the calls abort() and a later
                            \* exportGif found in progress

\* the variables of the component PixelNoiseGenerator and of its host
component == <<baseSeedRef, absoluteFrameRef, droppedFramesRef, lastFrameCountRef,
               lastFpsUpdateTimeRef, actualFpsRef, windowStartFrameRef, windowSizeRef,
               canvas, context, host, lastTime, accumulator, props, effectProps, renderedWith,
               clock, rngState, pixels, staged, remembered, last>>

vars == <<component, exporter>>

\* the pixel output of a render, followed in SpecRender and SpecDistort only
paint == <<rngState, pixels, staged, remembered>>

----------------------------------------------------------------------------
(* Bounds of the model *)

\* the run is explored for this many milliseconds after each initial state
HorizonMs == 700
HorizonPlayedMs == 150
\* frames already played, uninterrupted, in the second and third initial state
PlayedNear == 597
PlayedFar == 640
\* frame indices are explored this far from the initial ones and from the window start
MaxAdvance == 6
\* the highest frame index whose pixels are rendered in SpecRender
MaxRenderFrame == 2
\* length of the uninterrupted playback of SpecPlayback, in frames
PlaybackFrames == 705
\* the host's clock, in milliseconds, at the first animation frame callback
MountTimeMs == 400
\* SpecFps follows the fps meter for this many milliseconds after the mount
HorizonFpsMs == 1700
\* the highest frame index rendered in SpecFrames
MaxSeedFrame == 6
\* the highest frame index rendered in SpecPattern
MaxPatternFrame == 2
\* calls of exportGif in a behaviour of SpecExport
MaxExports == 2

Ms(n) == 3 * n

Speeds == {10, 30}
FrameTimesMs == {50, 650}
EnsureInputs == {0, 1, 2, 300, 599, 600, 601, 650, 900, 1250, 1300}
MountSize == [width |-> 4, height |-> 2]
CanvasSizes == {[width |-> 0, height |-> 0], [width |-> 2, height |-> 2],
                [width |-> 4, height |-> 2]}
RandomValues == {0, 7}
Octaves == {2, 6}
\* the highest frame index rendered in SpecDistort
MaxDistortFrame == 2
\* a pattern tag without a case in renderFrame, distortion tags without a case
\* in applyDistortion
Patterns == {"pixels", "perlin"}
Distortions == {"none", "crt", "invert", "chromatic-aberration", "fisheye", "vortex"}
DistortSettings ==
    [pattern : Patterns,
     look : {[pixelSize |-> 1, colorMode |-> "rgb"], [pixelSize |-> 3, colorMode |-> "monochrome"]},
     distortion : Distortions,
     distortionParams : [intensity : {1, 5}, secondary : {5, 10}]]
\* seeded surfaces: the seed prop, the canvas and the block size
SeedSettings ==
    {[seed |-> 42, size |-> [width |-> 100, height |-> 100], pixelSize |-> 10]}
        \cup [seed : {1, 65536, 2147483647}, size : {MountSize}, pixelSize : {1, 10}]
\* duration * exportFps of an export
FrameCounts == {1, 2}
\* gray levels colorFromValue can give a block of 'halftone'
Tones == {128, 255}
\* patterns, block sizes and canvases of SpecPattern
PatternSettings ==
    [pattern : {"pixels", "perlin", "halftone"}, pixelSize : {3, 10},
     size : {MountSize, [width |-> 8, height |-> 2]}]
RenderSettings == {[pixelSize |-> 10, colorMode |-> "monochrome"],
                   [pixelSize |-> 3, colorMode |-> "rgb"],
                   [pixelSize |-> 2, colorMode |-> "monochrome"]}

Max(a, b) == IF a >= b THEN a ELSE b
Min(a, b) == IF a <= b THEN a ELSE b

----------------------------------------------------------------------------
(* Program constants *)

maxWindowFrames == 600
maxStepsPerFrame == 5
\* patternParams.dotSize ?? 6: the model's patternParams carry no dotSize
dotSize == 6

----------------------------------------------------------------------------
(* 32-bit words, as JavaScript's bitwise operators and Math.imul compute     *)
(* them. A word is kept as <<high half, low half>>, each half in 0..65535.   *)

ToWord(n) == <<n \div 65536, n % 65536>>

Word == (0..65535) \X (0..65535)

RECURSIVE XorBits(_, _, _)
XorBits(a, b, bits) ==
    IF bits = 0 THEN 0
    ELSE ((a + b) % 2) + 2 * XorBits(a \div 2, b \div 2, bits - 1)

RECURSIVE OrBits(_, _, _)
OrBits(a, b, bits) ==
    IF bits = 0 THEN 0
    ELSE (IF a % 2 = 1 \/ b % 2 = 1 THEN 1 ELSE 0) + 2 * OrBits(a \div 2, b \div 2, bits - 1)

\* the two operators on 4-bit digits, tabulated
XorDigit == [a \in 0..15 |-> [b \in 0..15 |-> XorBits(a, b, 4)]]
OrDigit == [a \in 0..15 |-> [b \in 0..15 |-> OrBits(a, b, 4)]]

Xor16(a, b) ==
    XorDigit[a \div 4096][b \div 4096] * 4096
    + XorDigit[(a \div 256) % 16][(b \div 256) % 16] * 256
    + XorDigit[(a \div 16) % 16][(b \div 16) % 16] * 16
    + XorDigit[a % 16][b % 16]

Or16(a, b) ==
    OrDigit[a \div 4096][b \div 4096] * 4096
    + OrDigit[(a \div 256) % 16][(b \div 256) % 16] * 256
    + OrDigit[(a \div 16) % 16][(b \div 16) % 16] * 16
    + OrDigit[a % 16][b % 16]

\* x ^ y
Xor32(x, y) == <<Xor16(x[1], y[1]), Xor16(x[2], y[2])>>

\* x | y
Or32(x, y) == <<Or16(x[1], y[1]), Or16(x[2], y[2])>>

\* (x + y) | 0
Add32(x, y) ==
    <<(x[1] + y[1] + (x[2] + y[2]) \div 65536) % 65536, (x[2] + y[2]) % 65536>>

\* x >>> 16, x >>> 15, x >>> 14, x >>> 7
Shr16(x) == <<0, x[1]>>
Shr15(x) == <<x[1] \div 32768, (x[1] % 32768) * 2 + x[2] \div 32768>>
Shr14(x) == <<x[1] \div 16384, (x[1] % 16384) * 4 + x[2] \div 16384>>
Shr7(x) == <<x[1] \div 128, (x[1] % 128) * 512 + x[2] \div 128>>

\* the low 16 bits of the product of two 16-bit numbers
MulLow(a, b) == (a * (b % 256) + ((a * (b \div 256)) % 256) * 256) % 65536

\* the high 16 bits of the product of two 16-bit numbers
MulHigh(a, b) ==
    ((a * (b % 256) + ((a * (b \div 256)) % 256) * 256) \div 65536
     + (a * (b \div 256)) \div 256) % 65536

\* Math.imul(x, y): the low 32 bits of the product
Imul == [x \in Word, y \in Word |->
            <<(MulHigh(x[2], y[2]) + MulLow(x[1], y[2]) + MulLow(x[2], y[1])) % 65536,
              MulLow(x[2], y[2])>>]

\* the lines of mixSeed after the first, each on the x the line before left
mixSeedLine2 == [x \in Word |-> Xor32(x, Shr16(x))]
mixSeedLine3 == [x \in Word |-> Imul[x, <<32747, 13613>>]]                \* 0x7feb352d
mixSeedLine4 == [x \in Word |-> Xor32(x, Shr15(x))]
mixSeedLine5 == [x \in Word |-> Imul[x, <<33900, 42635>>]]                \* 0x846ca68b
mixSeedLine6 == [x \in Word |-> Xor32(x, Shr16(x))]

\* mutant: the frame index is left out of the derived seed
mixSeedOfBase(base, frame) ==
    mixSeedLine6[mixSeedLine5[mixSeedLine4[mixSeedLine3[mixSeedLine2[ToWord(base)]]]]]

\* mixSeed(base, frame): the derived frame seed. frame * 0x9e3779b1 is a
\* product of doubles, exact below 2^53, of which ^ keeps the low 32 bits.
mixSeed(base, frame) ==
    mixSeedLine6[mixSeedLine5[mixSeedLine4[mixSeedLine3[mixSeedLine2[
        Xor32(ToWord(base), Imul[ToWord(frame), <<40503, 31153>>])]]]]]   \* 0x9e3779b1

\* the lines of the generator's closure after a = (a + 0x6d2b79f5) | 0
mulberryLine3 == [a \in Word |-> Imul[Xor32(a, Shr15(a)), Or32(<<0, 1>>, a)]]
mulberryLine4 == [t \in Word |->
                     Xor32(Add32(t, Imul[Xor32(t, Shr7(t)), Or32(<<0, 61>>, t)]), t)]
mulberryLine5 == [t \in Word |-> Xor32(t, Shr14(t))]

\* one call of the generator mulberry32 returns: the new state a and the
\* 32-bit value whose quotient by 2^32 is the draw in [0, 1)
mulberry32 == [a \in Word |->
                  [a |-> Add32(a, <<27947, 31221>>),                      \* 0x6d2b79f5
                   value |-> mulberryLine5[mulberryLine4[mulberryLine3[
                                 Add32(a, <<27947, 31221>>)]]]]]

----------------------------------------------------------------------------
(* The generator instance as a record, and the pure steps of its code *)

Gen == [baseSeedRef |-> baseSeedRef, absoluteFrameRef |-> absoluteFrameRef,
        droppedFramesRef |-> droppedFramesRef, lastFrameCountRef |-> lastFrameCountRef,
        lastFpsUpdateTimeRef |-> lastFpsUpdateTimeRef, actualFpsRef |-> actualFpsRef,
        windowStartFrameRef |-> windowStartFrameRef, windowSizeRef |-> windowSizeRef,
        canvas |-> canvas, lastTime |-> lastTime, accumulator |-> accumulator]

SetGen(g) ==
    /\ baseSeedRef' = g.baseSeedRef
    /\ absoluteFrameRef' = g.absoluteFrameRef
    /\ droppedFramesRef' = g.droppedFramesRef
    /\ lastFrameCountRef' = g.lastFrameCountRef
    /\ lastFpsUpdateTimeRef' = g.lastFpsUpdateTimeRef
    /\ actualFpsRef' = g.actualFpsRef
    /\ windowStartFrameRef' = g.windowStartFrameRef
    /\ windowSizeRef' = g.windowSizeRef
    /\ canvas' = g.canvas
    /\ lastTime' = g.lastTime
    /\ accumulator' = g.accumulator

\* initSeed: the supplied seed when it is positive, else a random 32-bit draw (0 becomes 1)
initSeed(provided, random) ==
    IF provided # <<>> /\ provided[1] > 0 THEN provided[1]
    ELSE IF random = 0 THEN 1 ELSE random

\* mutant: the window never slides, it only grows
ensureWindowNeverSlides(g, frameIndex) ==
    IF g.windowSizeRef = 0
    THEN [g EXCEPT !.windowStartFrameRef = frameIndex, !.windowSizeRef = 1]
    ELSE IF frameIndex >= g.windowStartFrameRef + g.windowSizeRef
    THEN [g EXCEPT !.windowSizeRef = frameIndex + 1 - g.windowStartFrameRef]
    ELSE g

\* mutant: the window keeps one frame more than its capacity
ensureWindowOffByOne(g, frameIndex) ==
    IF g.windowSizeRef = 0
    THEN [g EXCEPT !.windowStartFrameRef = frameIndex, !.windowSizeRef = 1]
    ELSE IF frameIndex >= g.windowStartFrameRef + g.windowSizeRef
    THEN LET newStart == Max(0, frameIndex - maxWindowFrames)
         IN  [g EXCEPT !.windowStartFrameRef = newStart,
                       !.windowSizeRef = frameIndex + 1 - newStart]
    ELSE g

\* mutant: a frame before the window extends the window backward
ensureWindowExtendsBackward(g, frameIndex) ==
    IF g.windowSizeRef = 0
    THEN [g EXCEPT !.windowStartFrameRef = frameIndex, !.windowSizeRef = 1]
    ELSE IF frameIndex < g.windowStartFrameRef
    THEN [g EXCEPT !.windowStartFrameRef = frameIndex,
                   !.windowSizeRef = Min(maxWindowFrames,
                                         g.windowStartFrameRef + g.windowSizeRef - frameIndex)]
    ELSE IF frameIndex >= g.windowStartFrameRef + g.windowSizeRef
    THEN LET newStart == Max(0, frameIndex + 1 - maxWindowFrames)
         IN  [g EXCEPT !.windowStartFrameRef = newStart,
                       !.windowSizeRef = frameIndex + 1 - newStart]
    ELSE g

\* mutant: a frame past the end moves the start one frame further than the
\* capacity asks for
ensureWindowSlidesEarly(g, frameIndex) ==
    IF g.windowSizeRef = 0
    THEN [g EXCEPT !.windowStartFrameRef = frameIndex, !.windowSizeRef = 1]
    ELSE IF frameIndex < g.windowStartFrameRef
    THEN g
    ELSE IF frameIndex >= g.windowStartFrameRef + g.windowSizeRef
    THEN LET newStart == Max(0, frameIndex + 2 - maxWindowFrames)
         IN  [g EXCEPT !.windowStartFrameRef = newStart,
                       !.windowSizeRef = frameIndex + 1 - newStart]
    ELSE g

ensureWindowContainsFrame(g, frameIndex) ==
    LET start == g.windowStartFrameRef
        end == start + g.windowSizeRef
    IN  IF g.windowSizeRef = 0
        THEN [g EXCEPT !.windowStartFrameRef = frameIndex, !.windowSizeRef = 1]
        ELSE IF frameIndex < start
        THEN g
        ELSE LET g1 == IF frameIndex >= end
                       THEN LET newEnd == frameIndex + 1
                                newStart == Max(0, newEnd - maxWindowFrames)
                            IN  [g EXCEPT !.windowStartFrameRef = newStart,
                                          !.windowSizeRef = newEnd - newStart]
                       ELSE g
             IN  IF g1.windowSizeRef > maxWindowFrames
                 THEN [g1 EXCEPT !.windowStartFrameRef =
                                     g1.windowStartFrameRef + (g1.windowSizeRef - maxWindowFrames),
                                 !.windowSizeRef = maxWindowFrames]
                 ELSE g1

\* renderFrame: nothing on a zero-area canvas, else the window bookkeeping
renderFrame(g, frameIndex) ==
    IF g.canvas.width = 0 \/ g.canvas.height = 0 THEN g
    ELSE ensureWindowContainsFrame(g, frameIndex)

\* Math.floor(rng() * 256) of a draw
byte(d) == d.value[1] \div 256

\* the three draws of the colour mode 'rgb', in the order of the array literal
rgbThird(d1, d2, d3) == [color |-> <<byte(d1), byte(d2), byte(d3)>>, a |-> d3.a]
rgbSecond(d1, d2) == rgbThird(d1, d2, mulberry32[d2.a])
rgbFirst(d1) == rgbSecond(d1, mulberry32[d1.a])

\* the single draw of 'monochrome' and of the default branch
gray(d) == [color |-> <<byte(d), byte(d), byte(d)>>, a |-> d.a]

\* getColorForMode: a colour drawn from the generator in state a, and the
\* state the generator is left in
getColorForMode(mode, a) ==
    IF mode = "rgb" THEN rgbFirst(mulberry32[a]) ELSE gray(mulberry32[a])

\* the colours of n blocks in scan order (the run of the two loops is split
\* in halves to keep the evaluation shallow)
RECURSIVE blockColors(_, _, _)
blockOne(c) == [colors |-> <<c.color>>, a |-> c.a]

blockJoin(first, rest) == [colors |-> first.colors \o rest.colors, a |-> rest.a]

blockAfter(mode, first, n) == blockJoin(first, blockColors(mode, first.a, n))

blockColors(mode, a, n) ==
    IF n = 0 THEN [colors |-> <<>>, a |-> a]
    ELSE IF n = 1 THEN blockOne(getColorForMode(mode, a))
    ELSE blockAfter(mode, blockColors(mode, a, n \div 2), n - n \div 2)

\* the image data: every pixel <<r, g, b, 255>> of the block it lies in,
\* blocks laid out row-major and clipped to the canvas
imageData(width, height, pixelSize, cols, drawn) ==
    [rngState |-> drawn.a,
     pixels |-> [i \in 1..(width * height) |->
                    drawn.colors[(((i - 1) \div width) \div pixelSize) * cols
                                 + (((i - 1) % width) \div pixelSize) + 1] \o <<255>>]]

\* mutant: one generator is shared by all renders instead of a fresh one per frame
paintFrameSharedGenerator(g, rng, p, frameIndex) ==
    LET cols == (g.canvas.width + p.pixelSize - 1) \div p.pixelSize
        rows == (g.canvas.height + p.pixelSize - 1) \div p.pixelSize
    IN  imageData(g.canvas.width, g.canvas.height, p.pixelSize, cols,
                  blockColors(p.colorMode, rng, rows * cols))

\* the pixel side of renderFrame up to the end of the branch 'pixels' of the
\* pattern switch: a fresh generator seeded with mixSeed(baseSeed, frameIndex)
\* and one colour per block. rng is the generator of the render before.
paintFrame(g, rng, p, frameIndex) ==
    LET cols == (g.canvas.width + p.pixelSize - 1) \div p.pixelSize
        rows == (g.canvas.height + p.pixelSize - 1) \div p.pixelSize
    IN  imageData(g.canvas.width, g.canvas.height, p.pixelSize, cols,
                  blockColors(p.colorMode, mixSeed(g.baseSeedRef, frameIndex), rows * cols))

\* mutant: the fallback branch of the pattern switch draws one gray per block
patternDefaultDrawsGray(g, rng, p, frameIndex) ==
    LET cols == (g.canvas.width + p.pixelSize - 1) \div p.pixelSize
        rows == (g.canvas.height + p.pixelSize - 1) \div p.pixelSize
    IN  imageData(g.canvas.width, g.canvas.height, p.pixelSize, cols,
                  blockColors("monochrome", mixSeed(g.baseSeedRef, frameIndex), rows * cols))

\* the same up to the end of the default branch of the pattern switch
patternDefault(g, rng, p, frameIndex) ==
    LET cols == (g.canvas.width + p.pixelSize - 1) \div p.pixelSize
        rows == (g.canvas.height + p.pixelSize - 1) \div p.pixelSize
    IN  imageData(g.canvas.width, g.canvas.height, p.pixelSize, cols,
                  blockColors(p.colorMode, mixSeed(g.baseSeedRef, frameIndex), rows * cols))

\* the pattern switch. Of its twenty cases the model has 'pixels'; the other
\* nineteen tags of the type Pattern are not among the model's inputs.
patternStage(g, rng, p, frameIndex) ==
    IF p.pattern = "pixels" THEN paintFrame(g, rng, p, frameIndex)
    ELSE patternDefault(g, rng, p, frameIndex)

\* createImageData, new ArrayBuffer: every byte of a fresh buffer is 0
freshBuffer(size) == [i \in 1..(size.width * size.height) |-> <<0, 0, 0, 0>>]

\* 'halftone': the pixels startX..endX-1 (startY..endY-1) of the square of the
\* block at px (py) on a canvas of this length
dotStart(px) == Max(0, px - dotSize \div 2)
dotSpan(px, length) == dotStart(px)..(Min(length, dotStart(px) + dotSize) - 1)

\* isDot. alignedX is dx turned by the angle and turned back: dx itself but
\* for the rounding of the four products, which at dx = 0 decides the sign.
\* edge[dy] is the outcome at dx = 0, dy # 0. Math.floor(alignedX / dotSize) % 2
\* is 0 or -0 exactly for an even quotient.
isDot(dx, dy, edge) ==
    IF dx = 0 /\ dy # 0 THEN edge[dy] ELSE (dx \div dotSize) % 2 = 0

\* the two writes of the innermost loop; tone is the gray colorFromValue
\* gave the block
halftonePixel(dx, dy, tone, edge) ==
    IF isDot(dx, dy, edge) THEN <<tone, tone, tone, 255>> ELSE <<0, 0, 0, 255>>

\* the square of the block at (px, py)
halftoneBlock(data, size, px, py, tone, edge) ==
    [i \in DOMAIN data |->
        IF /\ ((i - 1) % size.width) \in dotSpan(px, size.width)
           /\ ((i - 1) \div size.width) \in dotSpan(py, size.height)
        THEN halftonePixel(((i - 1) % size.width) - px,
                           ((i - 1) \div size.width) - py, tone, edge)
        ELSE data[i]]

\* the loops over rows and cols, from block k of the scan on
RECURSIVE halftoneBlocks(_, _, _, _, _, _)
halftoneBlocks(data, size, pixelSize, cols, dots, k) ==
    IF k >= Len(dots.tone) THEN data
    ELSE halftoneBlocks(halftoneBlock(data, size, (k % cols) * pixelSize,
                                      (k \div cols) * pixelSize, dots.tone[k + 1], dots.edge),
                        size, pixelSize, cols, dots, k + 1)

\* the case 'halftone' of the pattern switch: no draw is taken from the
\* generator. dots holds the outcomes of the real arithmetic: the gray of
\* each block and the rounding on the column dx = 0.
halftone(g, p, frameIndex, dots) ==
    [rngState |-> mixSeed(g.baseSeedRef, frameIndex),
     pixels |-> halftoneBlocks(freshBuffer(g.canvas), g.canvas, p.pixelSize,
                               (g.canvas.width + p.pixelSize - 1) \div p.pixelSize, dots, 0)]

\* the pattern switch with the case 'halftone'
patternStageWith(g, rng, p, frameIndex, dots) ==
    IF p.pattern = "halftone" THEN halftone(g, p, frameIndex, dots)
    ELSE patternStage(g, rng, p, frameIndex)

\* mutant: the red channel is shifted without looking at the row's end
shiftRedAcrossRows(data, srcData, width, offset, k) ==
    IF k + offset < Len(srcData)
    THEN [data EXCEPT ![k + offset + 1][1] = srcData[k + 1][1]]
    ELSE data

\* 'chromatic-aberration', pixel k of the loop (k = i / 4): the red channel
\* goes offset pixels to the right
shiftRed(data, srcData, width, offset, k) ==
    IF (k % width) + offset < width
    THEN [data EXCEPT ![k + offset + 1][1] = srcData[k + 1][1]]
    ELSE data

\* and the blue channel offset pixels to the left
shiftBlue(data, srcData, width, offset, k) ==
    IF (k % width) - offset >= 0
    THEN [data EXCEPT ![k - offset + 1][3] = srcData[k + 1][3]]
    ELSE data

RECURSIVE chromaticAberration(_, _, _, _, _)
chromaticAberration(data, srcData, width, offset, k) ==
    IF k >= Len(srcData) THEN data
    ELSE chromaticAberration(shiftBlue(shiftRed(data, srcData, width, offset, k),
                                       srcData, width, offset, k),
                             srcData, width, offset, k + 1)

\* mutant: the resampling reads the buffer it is writing to
resampleInPlace(data, srcData, size, k, nx, ny, unit) ==
    IF nx >= 0 /\ nx < size.width * unit /\ ny >= 0 /\ ny < size.height * unit
    THEN [data EXCEPT ![k + 1] =
             SubSeq(data[(ny \div unit) * size.width + (nx \div unit) + 1], 1, 3)
                 \o <<data[k + 1][4]>>]
    ELSE data

\* the innermost if of 'vortex' and of 'fisheye': the destination pixel k
\* takes red, green and blue of the source pixel under (nx / unit, ny / unit)
\* when that point lies on the canvas
resample(data, srcData, size, k, nx, ny, unit) ==
    IF nx >= 0 /\ nx < size.width * unit /\ ny >= 0 /\ ny < size.height * unit
    THEN [data EXCEPT ![k + 1] =
             SubSeq(srcData[(ny \div unit) * size.width + (nx \div unit) + 1], 1, 3)
                 \o <<data[k + 1][4]>>]
    ELSE data

\* dx, dy and dist of a pixel, doubled (centerX = width / 2) and squared
Twice(x, length) == 2 * x - length
DistSq(dx2, dy2) == dx2 * dx2 + dy2 * dy2

\* 'fisheye', the source point of a pixel at the doubled offset (dx2, dy2)
\* from the centre, whose squared doubled distance d is less than m, that of
\* maxDist: nx = centerX + dx * f2, f2 = 1 + strength * f * f, in units of
\* 1 / (20 * m)
fisheyePixel(data, srcData, size, intensity, k, dx2, dy2, d, m) ==
    IF d < m
    THEN resample(data, srcData, size, k,
                  10 * m * size.width + dx2 * (10 * m + intensity * d),
                  10 * m * size.height + dy2 * (10 * m + intensity * d),
                  20 * m)
    ELSE data

fisheyeAt(data, srcData, size, intensity, k, dx2, dy2) ==
    fisheyePixel(data, srcData, size, intensity, k, dx2, dy2, DistSq(dx2, dy2),
                 DistSq(size.width, size.height))

RECURSIVE fisheye(_, _, _, _, _)
fisheye(data, srcData, size, intensity, k) ==
    IF k >= Len(srcData) THEN data
    ELSE fisheye(fisheyeAt(data, srcData, size, intensity, k,
                           Twice(k % size.width, size.width),
                           Twice(k \div size.width, size.height)),
                 srcData, size, intensity, k + 1)

\* the turns the model has for the twist of 'vortex': <<cos, sin>> of the
\* angle, in fifths
Rotations == {<<5, 0>>, <<4, 3>>, <<3, 4>>, <<0, 5>>}

\* dist < radius, radius = Math.min(width, height) * secondary
withinRadius(d, size, secondary) ==
    25 * d < (Min(size.width, size.height) * secondary) * (Min(size.width, size.height) * secondary)

\* the turn by the angle twist = strength * (1 - dist / radius). The model
\* does not compute the angle: twist gives, for each squared distance, one
\* of Rotations. At the centre the turn moves nothing.
turnAt(twist, d) == IF d \in DOMAIN twist THEN twist[d] ELSE <<5, 0>>

\* 'vortex', the source point of a pixel: srcX = centerX + cos(newAngle) * dist
\* = centerX + dx * cos(twist) - dy * sin(twist), in tenths
vortexPixel(data, srcData, size, k, dx2, dy2, turn) ==
    resample(data, srcData, size, k,
             5 * size.width + turn[1] * dx2 - turn[2] * dy2,
             5 * size.height + turn[2] * dx2 + turn[1] * dy2,
             10)

vortexAt(data, srcData, size, secondary, twist, k, dx2, dy2) ==
    IF withinRadius(DistSq(dx2, dy2), size, secondary)
    THEN vortexPixel(data, srcData, size, k, dx2, dy2, turnAt(twist, DistSq(dx2, dy2)))
    ELSE data

RECURSIVE vortex(_, _, _, _, _, _)
vortex(data, srcData, size, secondary, twist, k) ==
    IF k >= Len(srcData) THEN data
    ELSE vortex(vortexAt(data, srcData, size, secondary, twist, k,
                         Twice(k % size.width, size.width),
                         Twice(k \div size.width, size.height)),
                srcData, size, secondary, twist, k + 1)

\* mutant: the distortions without a case get the chromatic aberration
applyDistortionDefaultShifts(p, size, twist, image) ==
    IF p.distortion = "none" THEN image
    ELSE CASE p.distortion = "vortex" ->
                  [image EXCEPT !.pixels = vortex(image.pixels, image.pixels, size,
                                                  p.distortionParams.secondary, twist, 0)]
           [] p.distortion = "fisheye" ->
                  [image EXCEPT !.pixels = fisheye(image.pixels, image.pixels, size,
                                                   p.distortionParams.intensity, 0)]
           [] OTHER ->
                  [image EXCEPT !.pixels =
                      chromaticAberration(image.pixels, image.pixels, size.width,
                                          Max(1, p.distortionParams.intensity), 0)]

\* applyDistortion: the image data and the generator it was handed, as it
\* puts them on the canvas. Of the cases of its switch the model has
\* 'vortex', 'chromatic-aberration' and 'fisheye'; 'cyberpunk', 'matrix',
\* 'scanlines', 'noise-overlay' and 'pixelate' are not among the model's
\* inputs.
applyDistortion(p, size, twist, image) ==
    IF p.distortion = "none" THEN image
    ELSE CASE p.distortion = "vortex" ->
                  [image EXCEPT !.pixels = vortex(image.pixels, image.pixels, size,
                                                  p.distortionParams.secondary, twist, 0)]
           [] p.distortion = "chromatic-aberration" ->
                  [image EXCEPT !.pixels =
                      chromaticAberration(image.pixels, image.pixels, size.width,
                                          Max(1, p.distortionParams.intensity), 0)]
           [] p.distortion = "fisheye" ->
                  [image EXCEPT !.pixels = fisheye(image.pixels, image.pixels, size,
                                                   p.distortionParams.intensity, 0)]
           [] OTHER -> image

\* what renderFrame hands to applyDistortion, with the turns of the vortex,
\* and what applyDistortion puts on the canvas
distorted(p, size, twist, image) ==
    [staged |-> [pixels |-> image.pixels, rngState |-> image.rngState, twist |-> twist],
     shown |-> applyDistortion(p, size, twist, image)]

\* the pixel side of renderFrame
renderPixels(g, rng, p, frameIndex, twist) ==
    distorted(p, g.canvas, twist, patternStage(g, rng, p, frameIndex))

\* mutant: the transport calls go on without a context
withContextUnchecked(ctx, g, done) == done

\* the first lines of stepForward, stepBackward, seekToFrame and of the
\* animation effect: return when there is no canvas or no context, else go
\* on to done
withContext(ctx, g, done) == IF ctx THEN done ELSE g

stepForward(g) ==
    LET g1 == [g EXCEPT !.absoluteFrameRef = g.absoluteFrameRef + 1]
    IN  renderFrame(g1, g1.absoluteFrameRef)

\* mutant: stepBackward without the clamp to the window start
stepBackwardNoClamp(g) ==
    LET g1 == [g EXCEPT !.absoluteFrameRef = g.absoluteFrameRef - 1]
    IN  renderFrame(g1, g1.absoluteFrameRef)

\* mutant: stepBackward clamps one frame above the window start
stepBackwardOffByOne(g) ==
    LET g1 == [g EXCEPT !.absoluteFrameRef =
                            Max(g.windowStartFrameRef + 1, g.absoluteFrameRef - 1)]
    IN  renderFrame(g1, g1.absoluteFrameRef)

stepBackward(g) ==
    LET start == g.windowStartFrameRef
        g1 == [g EXCEPT !.absoluteFrameRef = Max(start, g.absoluteFrameRef - 1)]
    IN  renderFrame(g1, g1.absoluteFrameRef)

\* mutant: seekToFrame clamps at the window end only
seekToFrameNoLowerClamp(g, index) ==
    LET start == g.windowStartFrameRef
        end == start + g.windowSizeRef
        g1 == [g EXCEPT !.absoluteFrameRef = Min(start + index, Max(start, end - 1))]
    IN  renderFrame(g1, g1.absoluteFrameRef)

seekToFrame(g, index) ==
    LET start == g.windowStartFrameRef
        end == start + g.windowSizeRef
        absolute == Max(start, Min(start + index, Max(start, end - 1)))
        g1 == [g EXCEPT !.absoluteFrameRef = absolute]
    IN  renderFrame(g1, g1.absoluteFrameRef)

resetDroppedFrames(g) ==
    [g EXCEPT !.droppedFramesRef = 0, !.lastFrameCountRef = g.absoluteFrameRef]

\* mutant: a resize keeps the frame index and the window
updateCanvasSizeKeepsTimeline(g, container, random) ==
    IF g.canvas.width # container.width \/ g.canvas.height # container.height
    THEN renderFrame([g EXCEPT !.canvas = container,
                               !.baseSeedRef = initSeed(<<>>, random)], g.absoluteFrameRef)
    ELSE g

\* updateCanvasSize: a change of the container's size resets seed, frame and window
updateCanvasSize(g, container, random) ==
    IF g.canvas.width # container.width \/ g.canvas.height # container.height
    THEN renderFrame([g EXCEPT !.canvas = container,
                               !.baseSeedRef = initSeed(<<>>, random),
                               !.absoluteFrameRef = 0,
                               !.windowStartFrameRef = 0,
                               !.windowSizeRef = 0], 0)
    ELSE g

\* the body of the animation effect, run at mount and whenever one of its
\* dependencies (pixelSize, speed, colorMode, pattern, distortion,
\* distortionParams, isPaused, seed) changes
runEffect(g, seed, random) ==
    LET g1 == [g EXCEPT !.baseSeedRef = initSeed(seed, random),
                        !.absoluteFrameRef = 0,
                        !.windowStartFrameRef = 0,
                        !.windowSizeRef = 0]
        g2 == renderFrame(g1, 0)
    IN  [g2 EXCEPT !.lastTime = 0, !.accumulator = 0]

fixedDt(speed) == Ms(1000) \div speed

\* Request ids and loops are numbered from 1; a number is used again once no
\* pending callback bears it.
NoHost == [pending |-> {}, animationFrameRef |-> 0, loop |-> 0, torn |-> <<>>]

Unused(taken) == CHOOSE n \in 1..(Cardinality(taken) + 1) : n \notin taken

\* animationFrameRef.current = requestAnimationFrame(animate), animate being
\* that of the given loop
requestWith(h, id, loop) ==
    [h EXCEPT !.pending = h.pending \cup {[id |-> id, loop |-> loop]},
              !.animationFrameRef = id]

requestAnimationFrame(h, loop) ==
    requestWith(h, Unused({c.id : c \in h.pending}), loop)

cancelAnimationFrame(h, id) ==
    [h EXCEPT !.pending = {c \in h.pending : c.id # id}]

\* mutant: the cleanup of the effect leaves the pending request alone
cleanupKeepsRequest(h) == h

\* the cleanup of the animation effect
cleanup(h) ==
    IF h.animationFrameRef # 0 THEN cancelAnimationFrame(h, h.animationFrameRef) ELSE h

\* the last line of the effect body: the first request of a new loop
startLoop(h) ==
    requestAnimationFrame([h EXCEPT !.loop = Unused({c.loop : c \in h.pending})],
                          Unused({c.loop : c \in h.pending}))

\* the loop torn down by a cleanup: its closure is kept for as long as a
\* callback of it is pending
tornDown(h, loop, closure) ==
    IF loop # 0 /\ \E c \in h.pending : c.loop = loop
    THEN [h EXCEPT !.loop = 0, !.torn = [l \in (DOMAIN h.torn) \cup {loop} |->
                                            IF l = loop THEN closure ELSE h.torn[l]]]
    ELSE [h EXCEPT !.loop = 0]

\* the effect is cleaned up
teardown(h, closure) == tornDown(cleanup(h), h.loop, closure)

\* what the callback c closes over: the closure of the current loop is
\* (lastTime, accumulator, props)
closureOf(h, c, current) == IF c.loop = h.loop THEN current ELSE h.torn[c.loop]

\* mutant: a step of the loop does not take its fixedDt off the accumulator
RECURSIVE stepLoopKeepsTime(_, _, _)
stepLoopKeepsTime(g, steps, dt) ==
    IF g.accumulator >= dt /\ steps < maxStepsPerFrame
    THEN LET g1 == [g EXCEPT !.absoluteFrameRef = g.absoluteFrameRef + 1]
         IN  stepLoopKeepsTime(renderFrame(g1, g1.absoluteFrameRef), steps + 1, dt)
    ELSE g

RECURSIVE stepLoop(_, _, _)
stepLoop(g, steps, dt) ==
    IF g.accumulator >= dt /\ steps < maxStepsPerFrame
    THEN LET g1 == [g EXCEPT !.absoluteFrameRef = g.absoluteFrameRef + 1]
             g2 == renderFrame(g1, g1.absoluteFrameRef)
         IN  stepLoop([g2 EXCEPT !.accumulator = g2.accumulator - dt], steps + 1, dt)
    ELSE g

\* mutant: the time debt left after the step cap is counted as dropped frames
\* but the accumulator is emptied instead of reduced modulo fixedDt
animateEmptiesAccumulator(g, p, currentTime, now) ==
    LET lt == IF g.lastTime = 0 THEN currentTime ELSE g.lastTime
        frameTime == currentTime - lt
        g0 == [g EXCEPT !.lastTime = currentTime]
    IN  IF ~p.isPaused
        THEN LET dt == fixedDt(p.speed)
                 g1 == stepLoop([g0 EXCEPT !.accumulator = g0.accumulator + frameTime], 0, dt)
                 g2 == IF g1.accumulator >= dt
                       THEN [g1 EXCEPT !.droppedFramesRef =
                                           g1.droppedFramesRef + (g1.accumulator \div dt),
                                       !.accumulator = 0]
                       ELSE g1
             IN  IF now - g2.lastFpsUpdateTimeRef >= Ms(1000)
                 THEN [g2 EXCEPT !.actualFpsRef = g2.absoluteFrameRef - g2.lastFrameCountRef,
                                 !.lastFrameCountRef = g2.absoluteFrameRef,
                                 !.lastFpsUpdateTimeRef = now]
                 ELSE g2
        ELSE [g0 EXCEPT !.accumulator = 0]

\* mutant: a paused tick keeps adding the frame time to the accumulator
animateAccumulatesPaused(g, p, currentTime, now) ==
    LET lt == IF g.lastTime = 0 THEN currentTime ELSE g.lastTime
        frameTime == currentTime - lt
        g0 == [g EXCEPT !.lastTime = currentTime]
    IN  IF ~p.isPaused
        THEN LET dt == fixedDt(p.speed)
                 g1 == stepLoop([g0 EXCEPT !.accumulator = g0.accumulator + frameTime], 0, dt)
                 g2 == IF g1.accumulator >= dt
                       THEN [g1 EXCEPT !.droppedFramesRef =
                                           g1.droppedFramesRef + (g1.accumulator \div dt),
                                       !.accumulator = g1.accumulator % dt]
                       ELSE g1
             IN  IF now - g2.lastFpsUpdateTimeRef >= Ms(1000)
                 THEN [g2 EXCEPT !.actualFpsRef = g2.absoluteFrameRef - g2.lastFrameCountRef,
                                 !.lastFrameCountRef = g2.absoluteFrameRef,
                                 !.lastFpsUpdateTimeRef = now]
                 ELSE g2
        ELSE [g0 EXCEPT !.accumulator = g0.accumulator + frameTime]

\* animate: one tick of the loop at host time currentTime; now is performance.now()
animate(g, p, currentTime, now) ==
    LET lt == IF g.lastTime = 0 THEN currentTime ELSE g.lastTime
        frameTime == currentTime - lt
        g0 == [g EXCEPT !.lastTime = currentTime]
    IN  IF ~p.isPaused
        THEN LET dt == fixedDt(p.speed)
                 g1 == stepLoop([g0 EXCEPT !.accumulator = g0.accumulator + frameTime], 0, dt)
                 g2 == IF g1.accumulator >= dt
                       THEN [g1 EXCEPT !.droppedFramesRef =
                                           g1.droppedFramesRef + (g1.accumulator \div dt),
                                       !.accumulator = g1.accumulator % dt]
                       ELSE g1
             IN  IF now - g2.lastFpsUpdateTimeRef >= Ms(1000)
                 THEN [g2 EXCEPT !.actualFpsRef = g2.absoluteFrameRef - g2.lastFrameCountRef,
                                 !.lastFrameCountRef = g2.absoluteFrameRef,
                                 !.lastFpsUpdateTimeRef = now]
                 ELSE g2
        ELSE [g0 EXCEPT !.accumulator = 0]

\* the callback c, taken off the host's queue, runs animate at time t on the
\* refs of g with its closure, and requests the next animation frame
animateWith(g, closure, t) ==
    animate([g EXCEPT !.lastTime = closure.lastTime, !.accumulator = closure.accumulator],
            closure.props, t, t)

\* the refs and the current loop's closure after the callback c has run and
\* left ran
settled(h, c, g, ran) ==
    IF c.loop = h.loop THEN ran
    ELSE [ran EXCEPT !.lastTime = g.lastTime, !.accumulator = g.accumulator]

\* the host after the callback c has run and left ran
rescheduled(h, c, ran) ==
    requestAnimationFrame(
        [h EXCEPT !.pending = h.pending \ {c},
                  !.torn = [l \in DOMAIN h.torn |->
                               IF l = c.loop /\ c.loop # h.loop
                               THEN [h.torn[l] EXCEPT !.lastTime = ran.lastTime,
                                                      !.accumulator = ran.accumulator]
                               ELSE h.torn[l]]],
        c.loop)

----------------------------------------------------------------------------
(* Initial states: the component just mounted, or mounted and then played  *)
(* without interruption, one frame per tick, for a number of frames.       *)

\* patternParams is <<>> for {} and <<n>> for {octaves: n}; the distortion
\* parameters are counted in tenths
DefaultProps == [isPaused |-> FALSE, speed |-> 30, seed |-> <<>>,
                 pixelSize |-> 10, colorMode |-> "monochrome", pattern |-> "pixels",
                 patternParams |-> <<>>, distortion |-> "none",
                 distortionParams |-> [intensity |-> 5, secondary |-> 5]]

\* the settings renderFrame reads from the props it has closed over
Settings(p) == [pixelSize |-> p.pixelSize, speed |-> p.speed, colorMode |-> p.colorMode,
                pattern |-> p.pattern, patternParams |-> p.patternParams,
                distortion |-> p.distortion, distortionParams |-> p.distortionParams]

\* the settings a render on the canvas of g reads from p: none on a zero-area canvas
ReadBy(g, p, before) ==
    IF g.canvas.width = 0 \/ g.canvas.height = 0 THEN before ELSE <<Settings(p)>>

Mounted(size, random) ==
    runEffect([baseSeedRef |-> 0, absoluteFrameRef |-> 0, droppedFramesRef |-> 0,
               lastFrameCountRef |-> 0, lastFpsUpdateTimeRef |-> 0, actualFpsRef |-> 0,
               windowStartFrameRef |-> 0, windowSizeRef |-> 0, canvas |-> size,
               lastTime |-> 0, accumulator |-> 0], DefaultProps.seed, random)

\* the component as constructed, before its effect has run: the refs at their
\* initial values, the canvas element at its default size
DefaultCanvas == [width |-> 300, height |-> 150]

Constructed(seed, random) ==
    [baseSeedRef |-> initSeed(seed, random), absoluteFrameRef |-> 0, droppedFramesRef |-> 0,
     lastFrameCountRef |-> 0, lastFpsUpdateTimeRef |-> 0, actualFpsRef |-> 0,
     windowStartFrameRef |-> 0, windowSizeRef |-> 0, canvas |-> DefaultCanvas,
     lastTime |-> 0, accumulator |-> 0]

----------------------------------------------------------------------------
(* useGifExport. A call of exportGif, its AbortController and the encoder   *)
(* it creates bear the number of the call. Of gif.js: addFrame appends a    *)
(* frame; render throws 'Already running' on a running encoder and else     *)
(* starts it; a running encoder emits 'progress' and then 'finished';       *)
(* abort terminates the workers, after which it emits neither.              *)

NoExporter == [gifRef |-> 0, abortControllerRef |-> 0, aborted |-> {}, encoders |-> <<>>,
               calls |-> <<>>, stopped |-> {}, superseded |-> {}]

\* new GIF({...})
NewEncoder == [frames |-> <<>>, running |-> FALSE, renders |-> 0, handlers |-> <<>>,
               emitted |-> 0]

\* the encoder of a call that threw before it created one
NoEncoder == [NewEncoder EXCEPT !.renders = -1]

\* a call of exportGif entered: the loop counter i, totalFrames, and how often
\* each of its callbacks has been invoked
NewCall(totalFrames) ==
    [pc |-> "running", i |-> 0, totalFrames |-> totalFrames,
     onProgress |-> 0, onComplete |-> 0, onError |-> 0]

\* the calls abort() finds in progress: waiting for the timeout in the
\* capture loop, or with their handlers on a running encoder
InProgress(x) ==
    {e \in DOMAIN x.calls :
        \/ x.calls[e].pc = "await"
        \/ \E k \in DOMAIN x.encoders :
               x.encoders[k].running /\ \E h \in DOMAIN x.encoders[k].handlers :
                                            x.encoders[k].handlers[h] = e}

abortGif(x) ==
    IF x.gifRef # 0
    THEN [x EXCEPT !.encoders[x.gifRef].running = FALSE, !.gifRef = 0]
    ELSE x

abortController(x) ==
    IF x.abortControllerRef # 0
    THEN [x EXCEPT !.aborted = @ \cup {x.abortControllerRef}, !.abortControllerRef = 0]
    ELSE x

abort(x) == abortController(abortGif(x))

\* abortControllerRef.current?.signal.aborted: undefined, so falsy, when
\* abortControllerRef.current is null
signalAborted(x) == x.abortControllerRef # 0 /\ x.abortControllerRef \in x.aborted

onProgress(x, e) == [x EXCEPT !.calls[e].onProgress = @ + 1]
onComplete(x, e) == [x EXCEPT !.calls[e].onComplete = @ + 1]
onError(x, e) == [x EXCEPT !.calls[e].onError = @ + 1]

\* the call e returns
returns(x, e) == [x EXCEPT !.calls[e].pc = "done"]

\* the catch block
catch(x, e) ==
    returns(IF signalAborted(x) THEN x ELSE [onError(x, e) EXCEPT !.gifRef = 0], e)

\* gifRef.current.render()
render(x, e) ==
    IF x.encoders[x.gifRef].running
    THEN catch(x, e)
    ELSE returns([x EXCEPT !.encoders[x.gifRef].running = TRUE,
                           !.encoders[x.gifRef].renders = @ + 1,
                           !.encoders[x.gifRef].emitted = 0], e)

\* after the loop: onProgress(50), the two handlers, render. A call on
\* gifRef.current throws a TypeError when gifRef.current is null.
afterLoop(x, e) ==
    IF x.gifRef = 0 THEN catch(x, e)
    ELSE render([x EXCEPT !.encoders[x.gifRef].handlers = Append(@, e)], e)

\* the capture loop from its head to the await, or to the end of the call
captureLoop(x, e) ==
    IF x.calls[e].i < x.calls[e].totalFrames
    THEN IF signalAborted(x) THEN returns(x, e)
         ELSE [onProgress(x, e) EXCEPT !.calls[e].pc = "await"]
    ELSE afterLoop(onProgress(x, e), e)

\* the call e goes on when its timeout has fired: drawImage, getImageData,
\* gifRef.current.addFrame, i++, and the loop again
resumes(x, e) ==
    IF x.gifRef = 0 THEN catch(x, e)
    ELSE captureLoop([x EXCEPT !.encoders[x.gifRef].frames = Append(@, e),
                               !.calls[e].i = @ + 1], e)

\* exportGif after its abort(): the new AbortController, the offscreen
\* context (ctx tells whether getContext gave one), the encoder, the loop
entered(x, e, ctx) ==
    IF ctx THEN captureLoop([x EXCEPT !.encoders[e] = NewEncoder, !.gifRef = e], e)
    ELSE catch(x, e)

exportGif(x, totalFrames, ctx) ==
    entered([abort(x) EXCEPT !.abortControllerRef = Len(x.calls) + 1,
                             !.calls = Append(@, NewCall(totalFrames)),
                             !.encoders = Append(@, NoEncoder)],
            Len(x.calls) + 1, ctx)

\* the handlers of 'progress' in the order of their registration, from the h-th on
RECURSIVE progressHandlers(_, _, _)
progressHandlers(x, k, h) ==
    IF h > Len(x.encoders[k].handlers) THEN x
    ELSE progressHandlers(IF signalAborted(x) THEN x
                          ELSE onProgress(x, x.encoders[k].handlers[h]), k, h + 1)

\* the handlers of 'finished'
RECURSIVE finishedHandlers(_, _, _)
finishedHandlers(x, k, h) ==
    IF h > Len(x.encoders[k].handlers) THEN x
    ELSE finishedHandlers(IF signalAborted(x) THEN x
                          ELSE [onComplete(onProgress(x, x.encoders[k].handlers[h]),
                                           x.encoders[k].handlers[h])
                                   EXCEPT !.gifRef = 0], k, h + 1)

----------------------------------------------------------------------------
(* The first states *)

\* n consecutive ticks, each one frame period after the one before (the run
\* is split in halves to keep the evaluation shallow)
RECURSIVE Played(_, _, _)
Played(g, t, n) ==
    IF n = 0 THEN g
    ELSE IF n = 1 THEN animate(g, DefaultProps, t, t)
    ELSE LET h == n \div 2
             g1 == Played(g, t, h)
         IN  IF g1.lastTime >= 0
             THEN Played(g1, t + h * fixedDt(DefaultProps.speed), n - h)
             ELSE g1

\* the clock after the first tick and n further ticks, one frame each
PlayedClock(n) ==
    IF n = 0 THEN Ms(MountTimeMs)
    ELSE Ms(MountTimeMs) + n * fixedDt(DefaultProps.speed)

PlayedFrames == {0, PlayedNear, PlayedFar}

GenIs(g) ==
    /\ baseSeedRef = g.baseSeedRef
    /\ absoluteFrameRef = g.absoluteFrameRef
    /\ droppedFramesRef = g.droppedFramesRef
    /\ lastFrameCountRef = g.lastFrameCountRef
    /\ lastFpsUpdateTimeRef = g.lastFpsUpdateTimeRef
    /\ actualFpsRef = g.actualFpsRef
    /\ windowStartFrameRef = g.windowStartFrameRef
    /\ windowSizeRef = g.windowSizeRef
    /\ canvas = g.canvas
    /\ lastTime = g.lastTime
    /\ accumulator = g.accumulator

InitAfter(size, n) ==
    /\ clock = PlayedClock(n)
    /\ context = TRUE
    /\ exporter = NoExporter
    /\ host = startLoop(NoHost)
    /\ props = DefaultProps
    /\ effectProps = DefaultProps
    /\ renderedWith = ReadBy([canvas |-> size], DefaultProps, <<>>)
    /\ last = [op |-> "mount", arg |-> n, before |-> <<>>]
    /\ rngState = <<0, 0>>
    /\ pixels = <<>>
    /\ staged = <<>>
    /\ remembered = <<>>
    /\ GenIs(Played(Mounted(size, 7), Ms(MountTimeMs), IF n = 0 THEN 0 ELSE n + 1))

\* the component just mounted
Init == InitAfter(MountSize, 0)

\* the component after a long uninterrupted playback, the window near or at capacity
InitTimeline == \E n \in {PlayedNear, PlayedFar} : InitAfter(MountSize, n)

----------------------------------------------------------------------------
(* Actions *)

Record(op, arg) ==
    last' = [op |-> op, arg |-> arg,
             before |-> IF op = "stepForward" THEN <<absoluteFrameRef>>
                        ELSE IF op = "stepBackward" /\ last.op = "stepForward" THEN last.before
                        ELSE <<>>]

\* the frame indices the model explores: near an initial state's frame index
\* or near the start of the window
Explored(a, start) ==
    \E n \in PlayedFrames \cup {start} : n - MaxAdvance <= a /\ a <= n + MaxAdvance

\* the clock may advance only within the horizon of an initial state's clock
WithinHorizon(t) ==
    \/ t <= PlayedClock(0) + Ms(HorizonMs)
    \/ \E n \in {PlayedNear, PlayedFar} :
           clock >= PlayedClock(n) /\ t <= PlayedClock(n) + Ms(HorizonPlayedMs)

\* the host runs the scheduled animation frame callback, ft after the last one
RunsCallback(c, closure) ==
    /\ SetGen(settled(host, c, Gen, animateWith(Gen, closure, clock')))
    /\ host' = rescheduled(host, c, animateWith(Gen, closure, clock'))

TickWith(ft) ==
    /\ context
    /\ clock' = clock + ft
    /\ \E c \in host.pending :
           RunsCallback(c, closureOf(host, c, [lastTime |-> lastTime,
                                              accumulator |-> accumulator,
                                              props |-> props]))
    /\ Record("tick", ft)
    /\ renderedWith' = IF absoluteFrameRef' # absoluteFrameRef
                       THEN ReadBy(Gen, effectProps, renderedWith)
                       ELSE renderedWith
    /\ UNCHANGED <<context, exporter, props, effectProps, paint>>

Tick ==
    \E ft \in FrameTimesMs :
        /\ WithinHorizon(clock + Ms(ft))
        /\ TickWith(Ms(ft))
        /\ Explored(absoluteFrameRef', windowStartFrameRef')

\* a tick exactly one frame period after the last one, as in steady playback
PlaybackTick ==
    /\ absoluteFrameRef < PlaybackFrames
    /\ TickWith(fixedDt(props.speed))

\* ensureWindowContainsFrame called on its own with any of a few frame indices
EnsureContains ==
    \E frameIndex \in EnsureInputs :
        /\ SetGen(ensureWindowContainsFrame(Gen, frameIndex))
        /\ Record("ensureContains", frameIndex)
        /\ UNCHANGED <<props, effectProps, renderedWith, context, exporter, host, clock, paint>>

\* ref.stepForward()
StepForward ==
    /\ SetGen(withContext(context, Gen, stepForward(Gen)))
    /\ Explored(absoluteFrameRef', windowStartFrameRef')
    /\ Record("stepForward", 0)
    /\ renderedWith' = ReadBy(Gen, props, renderedWith)
    /\ UNCHANGED <<props, effectProps, context, exporter, host, clock, paint>>

\* ref.stepBackward()
StepBackward ==
    /\ SetGen(withContext(context, Gen, stepBackward(Gen)))
    /\ Explored(absoluteFrameRef', windowStartFrameRef')
    /\ Record("stepBackward", 0)
    /\ renderedWith' = ReadBy(Gen, props, renderedWith)
    /\ UNCHANGED <<props, effectProps, context, exporter, host, clock, paint>>

\* the indices a caller may seek to: around both ends of the window
SeekInputs == {-5, 1, windowSizeRef - 1, windowSizeRef + 5}

\* ref.seekToFrame(index)
SeekToFrame ==
    \E index \in SeekInputs :
        /\ SetGen(withContext(context, Gen, seekToFrame(Gen, index)))
        /\ Record("seekToFrame", index)
        /\ renderedWith' = ReadBy(Gen, props, renderedWith)
        /\ UNCHANGED <<props, effectProps, context, exporter, host, clock, paint>>

\* the component is rendered with new props; when a dependency of the
\* animation effect changed, the effect is cleaned up and run again
EffectRuns(newProps) ==
    \/ newProps.isPaused # props.isPaused \/ newProps.speed # props.speed
    \/ newProps.seed # props.seed \/ newProps.pixelSize # props.pixelSize
    \/ newProps.colorMode # props.colorMode \/ newProps.pattern # props.pattern

Rerender(g, newProps, random) ==
    IF EffectRuns(newProps)
    THEN withContext(context, g, runEffect(g, newProps.seed, random))
    ELSE g

\* the closures after the render with newProps: the effect, when it runs again,
\* closes over newProps and renders frame 0 with them; rendered is what the
\* last render before it read
Closes(newProps, rendered) ==
    IF EffectRuns(newProps)
    THEN /\ effectProps' = newProps
         /\ renderedWith' = ReadBy(Gen, newProps, rendered)
         /\ host' = withContext(context, host,
                                startLoop(teardown(host, [lastTime |-> lastTime,
                                                          accumulator |-> accumulator,
                                                          props |-> props])))
    ELSE /\ effectProps' = effectProps
         /\ renderedWith' = rendered
         /\ host' = host

\* RetroViewer.handleStepForward: stepForward(), then setIsPaused(true)
HandleStepForward ==
    \E random \in RandomValues :
        LET newProps == [props EXCEPT !.isPaused = TRUE]
        IN  /\ SetGen(Rerender(withContext(context, Gen, stepForward(Gen)), newProps, random))
            /\ props' = newProps
            /\ Explored(absoluteFrameRef', windowStartFrameRef')
            /\ Record("handleStepForward", 0)
            /\ Closes(newProps, ReadBy(Gen, props, renderedWith))
            /\ UNCHANGED <<context, exporter, clock, paint>>

\* the play/pause button: setIsPaused(!isPaused)
TogglePause ==
    \E random \in RandomValues :
        LET newProps == [props EXCEPT !.isPaused = ~props.isPaused]
        IN  /\ host.loop # 0
            /\ SetGen(Rerender(Gen, newProps, random))
            /\ props' = newProps
            /\ Record("togglePause", 0)
            /\ Closes(newProps, renderedWith)
            /\ UNCHANGED <<context, exporter, clock, paint>>

\* the control deck sets another speed
SetSpeed ==
    \E speed \in Speeds \ {props.speed}, random \in RandomValues :
        LET newProps == [props EXCEPT !.speed = speed]
        IN  /\ host.loop # 0
            /\ SetGen(Rerender(Gen, newProps, random))
            /\ props' = newProps
            /\ Record("setSpeed", speed)
            /\ Closes(newProps, renderedWith)
            /\ UNCHANGED <<context, exporter, clock, paint>>

\* the window's resize event with the container at a new size: updateCanvasSize
WindowResize ==
    \E container \in CanvasSizes \ {canvas}, random \in RandomValues :
        /\ context
        /\ SetGen(updateCanvasSize(Gen, container, random))
        /\ Record("resize", random)
        /\ renderedWith' = ReadBy(Gen', effectProps, renderedWith)
        /\ UNCHANGED <<props, effectProps, context, exporter, host, clock, paint>>

Next ==
    \/ Tick
    \/ StepForward
    \/ StepBackward
    \/ SeekToFrame
    \/ HandleStepForward
    \/ TogglePause
    \/ SetSpeed
    \/ WindowResize

Spec == Init /\ [][Next]_vars

\* the timeline near capacity under ticks, transport calls and resizes
NextTimeline ==
    \/ Tick
    \/ StepForward
    \/ StepBackward
    \/ SeekToFrame
    \/ WindowResize

SpecTimeline == InitTimeline /\ [][NextTimeline]_vars

\* uninterrupted playback from the mount, one frame per tick
NextPlayback == PlaybackTick

SpecPlayback == Init /\ [][NextPlayback]_vars

\* the window bookkeeping on its own, from the empty window of a fresh mount
\* on a zero-area canvas
InitEnsure == InitAfter([width |-> 0, height |-> 0], 0)

NextEnsure == EnsureContains

SpecEnsure == InitEnsure /\ [][NextEnsure]_vars

\* the control deck sets a parameter of the pattern (setPatternParam)
SetPatternParam ==
    \E octaves \in Octaves \ {n \in Octaves : props.patternParams = <<n>>},
       random \in RandomValues :
        LET newProps == [props EXCEPT !.patternParams = <<octaves>>]
        IN  /\ SetGen(Rerender(Gen, newProps, random))
            /\ props' = newProps
            /\ Record("setPatternParam", octaves)
            /\ Closes(newProps, renderedWith)
            /\ UNCHANGED <<context, exporter, clock, paint>>

\* playback while the control deck changes settings
NextSettings ==
    \/ Tick
    \/ StepForward
    \/ SetSpeed
    \/ SetPatternParam

SpecSettings == Init /\ [][NextSettings]_vars

\* the component is removed from the view: the cleanup of the effect runs
Unmount ==
    /\ host.loop # 0
    /\ host' = teardown(host, [lastTime |-> lastTime, accumulator |-> accumulator,
                               props |-> props])
    /\ SetGen(Gen)
    /\ Record("unmount", 0)
    /\ UNCHANGED <<props, effectProps, renderedWith, context, exporter, clock, paint>>

\* a tick exactly one frame period after the last one, within the horizon of
\* SpecFps
FpsTick ==
    /\ clock + fixedDt(props.speed) <= PlayedClock(0) + Ms(HorizonFpsMs)
    /\ TickWith(fixedDt(props.speed))

\* steady ticks, with seeks in between
NextFps ==
    \/ FpsTick
    \/ SeekToFrame

SpecFps == Init /\ [][NextFps]_vars

\* the animation loop under settings changes, until the component is removed
NextLoop ==
    \/ Tick
    \/ TogglePause
    \/ SetSpeed
    \/ Unmount

SpecLoop == Init /\ [][NextLoop]_vars

\* The pixel output of the transport calls and of a resize, while paused.
\* The settings are those of a behaviour's first state: the state the effect
\* leaves when it runs with them. The history of operations is not kept here.
Rendered(g, buffer) ==
    [seed |-> g.baseSeedRef, frame |-> g.absoluteFrameRef, size |-> g.canvas,
     buffer |-> buffer, again |-> FALSE]

SameRender(r, g) ==
    r.seed = g.baseSeedRef /\ r.frame = g.absoluteFrameRef /\ r.size = g.canvas

\* the canvas once out, the outcome of renderPixels, has been put on it
Puts(out) ==
    /\ pixels' = out.shown.pixels
    /\ rngState' = out.shown.rngState
    /\ staged' = out.staged

\* the canvas and the history once out has been put on the canvas
Shows(g, out) ==
    /\ Puts(out)
    /\ \/ /\ remembered = <<>>
          /\ remembered' \in {<<>>, <<Rendered(g, out.shown.pixels)>>}
       \/ /\ remembered # <<>>
          /\ remembered' = IF SameRender(remembered[1], g)
                           THEN <<[remembered[1] EXCEPT !.again = TRUE]>>
                           ELSE remembered

\* what the canvas shows once the call that led to g has rendered g's
\* current frame: without a context the call has returned before rendering
Paints(g) ==
    IF ~context THEN UNCHANGED paint
    ELSE IF g.canvas.width = 0 \/ g.canvas.height = 0
    THEN /\ pixels' = IF g.canvas # canvas THEN <<>> ELSE pixels
         /\ UNCHANGED <<rngState, staged, remembered>>
    ELSE Shows(g, renderPixels(g, rngState, props, g.absoluteFrameRef, <<>>))

\* the first state of a behaviour with the settings p, but for the history
\* of renders
InitPuts(g, p, out) ==
    /\ GenIs(g)
    /\ context = TRUE
    /\ exporter = NoExporter
    /\ host = startLoop(NoHost)
    /\ clock = PlayedClock(0)
    /\ props = p
    /\ effectProps = p
    /\ renderedWith = <<Settings(p)>>
    /\ last = [op |-> "mount", arg |-> 0, before |-> <<>>]
    /\ rngState = out.shown.rngState
    /\ pixels = out.shown.pixels
    /\ staged = out.staged

InitShows(g, p, out) ==
    /\ InitPuts(g, p, out)
    /\ remembered \in {<<>>, <<Rendered(g, out.shown.pixels)>>}

RenderProps(settings) ==
    [DefaultProps EXCEPT !.isPaused = TRUE, !.pixelSize = settings.pixelSize,
                         !.colorMode = settings.colorMode]

\* the first state of a behaviour when getContext('2d') gives no context:
\* the effect has returned at once, nothing was rendered
InitNoContext(g, p) ==
    /\ GenIs(g)
    /\ context = FALSE
    /\ exporter = NoExporter
    /\ host = NoHost
    /\ clock = PlayedClock(0)
    /\ props = p
    /\ effectProps = p
    /\ renderedWith = <<>>
    /\ last = [op |-> "mount", arg |-> 0, before |-> <<>>]
    /\ rngState = <<0, 0>>
    /\ pixels = <<>>
    /\ staged = <<>>
    /\ remembered = <<>>

InitRender ==
    \E random \in RandomValues, settings \in RenderSettings :
        \/ InitShows(Mounted(MountSize, random), RenderProps(settings),
                     renderPixels(Mounted(MountSize, random), <<0, 0>>,
                                  RenderProps(settings), 0, <<>>))
        \/ InitNoContext(Constructed(RenderProps(settings).seed, random),
                         RenderProps(settings))

RenderStepForward ==
    LET g == withContext(context, Gen, stepForward(Gen))
    IN  /\ g.absoluteFrameRef <= MaxRenderFrame
        /\ SetGen(g)
        /\ Paints(g)
        /\ UNCHANGED <<props, effectProps, renderedWith, context, exporter, host, clock, last>>

RenderStepBackward ==
    LET g == withContext(context, Gen, stepBackward(Gen))
    IN  /\ SetGen(g)
        /\ Paints(g)
        /\ UNCHANGED <<props, effectProps, renderedWith, context, exporter, host, clock, last>>

RenderSeekToFrame ==
    \E index \in SeekInputs :
        LET g == withContext(context, Gen, seekToFrame(Gen, index))
        IN  /\ SetGen(g)
            /\ Paints(g)
            /\ UNCHANGED <<props, effectProps, renderedWith, context, exporter, host, clock, last>>

RenderResize ==
    \E container \in CanvasSizes \ {canvas}, random \in RandomValues :
        LET g == updateCanvasSize(Gen, container, random)
        IN  /\ context
            /\ SetGen(g)
            /\ Paints(g)
            /\ UNCHANGED <<props, effectProps, renderedWith, context, exporter, host, clock, last>>

NextRender ==
    \/ RenderStepForward
    \/ RenderStepBackward
    \/ RenderSeekToFrame
    \/ RenderResize

SpecRender == InitRender /\ [][NextRender]_vars

\* The pattern stage and the distortion stage of a render, while paused: the
\* settings are those of a behaviour's first state, the transport calls
\* render one frame after another. The context is there in every state.
DistortProps(settings) ==
    [DefaultProps EXCEPT !.isPaused = TRUE, !.pixelSize = settings.look.pixelSize,
                         !.colorMode = settings.look.colorMode,
                         !.pattern = settings.pattern,
                         !.distortion = settings.distortion,
                         !.distortionParams = settings.distortionParams]

\* the squared doubled distances from the centre, other than 0, of the
\* pixels the vortex turns
VortexDists(size, secondary) ==
    {d \in {DistSq(Twice(x, size.width), Twice(y, size.height)) :
                x \in 0..(size.width - 1), y \in 0..(size.height - 1)} :
        d > 0 /\ withinRadius(d, size, secondary)}

\* the turns a render can make at these distances
Twists(p, size) ==
    IF p.distortion = "vortex"
    THEN [VortexDists(size, p.distortionParams.secondary) -> Rotations]
    ELSE {<<>>}

InitDistort ==
    \E random \in RandomValues, settings \in DistortSettings :
        \E twist \in Twists(DistortProps(settings), MountSize) :
            /\ InitPuts(Mounted(MountSize, random), DistortProps(settings),
                        renderPixels(Mounted(MountSize, random), <<0, 0>>,
                                     DistortProps(settings), 0, twist))
            /\ remembered = <<>>

DistortStepForward ==
    \E twist \in Twists(props, canvas) :
        /\ absoluteFrameRef < MaxDistortFrame
        /\ SetGen(withContext(context, Gen, stepForward(Gen)))
        /\ Puts(renderPixels(stepForward(Gen), rngState, props,
                             absoluteFrameRef + 1, twist))
        /\ UNCHANGED <<props, effectProps, renderedWith, context, exporter, host, clock, remembered, last>>

DistortStepBackward ==
    \E twist \in Twists(props, canvas) :
        /\ SetGen(withContext(context, Gen, stepBackward(Gen)))
        /\ Puts(renderPixels(stepBackward(Gen), rngState, props,
                             Max(windowStartFrameRef, absoluteFrameRef - 1), twist))
        /\ UNCHANGED <<props, effectProps, renderedWith, context, exporter, host, clock, remembered, last>>

NextDistort ==
    \/ DistortStepForward
    \/ DistortStepBackward

SpecDistort == InitDistort /\ [][NextDistort]_vars

\* Frame after frame of a seeded surface, while paused: the seed prop is
\* given, so the base seed is the prop.
SeedProps(settings) ==
    [DefaultProps EXCEPT !.isPaused = TRUE, !.seed = <<settings.seed>>,
                         !.pixelSize = settings.pixelSize]

Seeded(settings) ==
    runEffect([Constructed(<<settings.seed>>, 0) EXCEPT !.canvas = settings.size],
              <<settings.seed>>, 0)

InitFrames ==
    \E settings \in SeedSettings :
        /\ InitPuts(Seeded(settings), SeedProps(settings),
                    renderPixels(Seeded(settings), <<0, 0>>, SeedProps(settings), 0, <<>>))
        /\ remembered = <<>>

FramesStepForward ==
    /\ absoluteFrameRef < MaxSeedFrame
    /\ SetGen(withContext(context, Gen, stepForward(Gen)))
    /\ Puts(renderPixels(stepForward(Gen), rngState, props, absoluteFrameRef + 1, <<>>))
    /\ UNCHANGED <<props, effectProps, renderedWith, context, exporter, host, clock, remembered, last>>

FramesStepBackward ==
    /\ SetGen(withContext(context, Gen, stepBackward(Gen)))
    /\ Puts(renderPixels(stepBackward(Gen), rngState, props,
                         Max(windowStartFrameRef, absoluteFrameRef - 1), <<>>))
    /\ UNCHANGED <<props, effectProps, renderedWith, context, exporter, host, clock, remembered, last>>

NextFrames ==
    \/ FramesStepForward
    \/ FramesStepBackward

SpecFrames == InitFrames /\ [][NextFrames]_vars

\* The pattern stage, pattern by pattern, while paused and without distortion.
PatternProps(settings) ==
    [DefaultProps EXCEPT !.isPaused = TRUE, !.pixelSize = settings.pixelSize,
                         !.pattern = settings.pattern]

\* the offsets dy # 0 at which a rounding on the column dx = 0 is decided
EdgeOffsets(size, pixelSize) ==
    {hy - y * pixelSize : y \in 0..((size.height - 1) \div pixelSize),
                          hy \in 0..(size.height - 1)} \ {0}

\* the outcomes the real arithmetic of a render can have
Dots(p, size) ==
    IF p.pattern = "halftone"
    THEN [tone : [1..(((size.width + p.pixelSize - 1) \div p.pixelSize)
                        * ((size.height + p.pixelSize - 1) \div p.pixelSize)) -> Tones],
          edge : [EdgeOffsets(size, p.pixelSize) -> BOOLEAN]]
    ELSE {<<>>}

patternPixels(g, rng, p, frameIndex, dots) ==
    distorted(p, g.canvas, <<>>, patternStageWith(g, rng, p, frameIndex, dots))

InitPattern ==
    \E random \in RandomValues, settings \in PatternSettings :
        \E dots \in Dots(PatternProps(settings), settings.size) :
            /\ InitPuts(Mounted(settings.size, random), PatternProps(settings),
                        patternPixels(Mounted(settings.size, random), <<0, 0>>,
                                      PatternProps(settings), 0, dots))
            /\ remembered = <<>>

PatternStepForward ==
    \E dots \in Dots(props, canvas) :
        /\ absoluteFrameRef < MaxPatternFrame
        /\ SetGen(withContext(context, Gen, stepForward(Gen)))
        /\ Puts(patternPixels(stepForward(Gen), rngState, props, absoluteFrameRef + 1, dots))
        /\ UNCHANGED <<props, effectProps, renderedWith, context, exporter, host, clock, remembered, last>>

PatternStepBackward ==
    \E dots \in Dots(props, canvas) :
        /\ SetGen(withContext(context, Gen, stepBackward(Gen)))
        /\ Puts(patternPixels(stepBackward(Gen), rngState, props,
                              Max(windowStartFrameRef, absoluteFrameRef - 1), dots))
        /\ UNCHANGED <<props, effectProps, renderedWith, context, exporter, host, clock, remembered, last>>

NextPattern ==
    \/ PatternStepForward
    \/ PatternStepBackward

SpecPattern == InitPattern /\ [][NextPattern]_vars

\* The GIF exporter: calls of exportGif and of abort, the timeouts of the
\* capture loops and the events of the encoders, in any order. The component
\* stays as mounted.
ExportGif ==
    \E totalFrames \in FrameCounts, ctx \in BOOLEAN :
        /\ Len(exporter.calls) < MaxExports
        /\ exporter' = [exportGif(exporter, totalFrames, ctx)
                           EXCEPT !.superseded = @ \cup InProgress(exporter)]
        /\ UNCHANGED component

Abort ==
    /\ exporter' = [abort(exporter) EXCEPT !.stopped = @ \cup InProgress(exporter)]
    /\ UNCHANGED component

TimeoutFires ==
    \E e \in DOMAIN exporter.calls :
        /\ exporter.calls[e].pc = "await"
        /\ exporter' = resumes([exporter EXCEPT !.calls[e].pc = "running"], e)
        /\ UNCHANGED component

EncoderProgress ==
    \E k \in DOMAIN exporter.encoders :
        /\ exporter.encoders[k].running
        /\ exporter.encoders[k].emitted < Len(exporter.encoders[k].frames)
        /\ exporter' = progressHandlers([exporter EXCEPT !.encoders[k].emitted = @ + 1], k, 1)
        /\ UNCHANGED component

EncoderFinished ==
    \E k \in DOMAIN exporter.encoders :
        /\ exporter.encoders[k].running
        /\ exporter' = finishedHandlers([exporter EXCEPT !.encoders[k].running = FALSE], k, 1)
        /\ UNCHANGED component

NextExport ==
    \/ ExportGif
    \/ Abort
    \/ TimeoutFires
    \/ EncoderProgress
    \/ EncoderFinished

SpecExport == Init /\ [][NextExport]_vars

----------------------------------------------------------------------------
(* Claims *)

\* what getCurrentFrameIndex() and getTotalFrames() report
getCurrentFrameIndex == absoluteFrameRef - windowStartFrameRef
getTotalFrames == windowSizeRef

\* the frame time a tick computes: 0 on the first tick of a loop
FrameTimeOf(ft) == IF lastTime = 0 THEN 0 ELSE ft

\* C1: in a Playing tick, with a = accumulator + frameTime, the frame counter
\* advances by min(5, floor(a/fixedDt)), droppedFrameCount grows by the rest
\* of floor(a/fixedDt), and the accumulator is left at a mod fixedDt.
C1_DropAccounting ==
    [][(last'.op = "tick" /\ ~props.isPaused) =>
         LET a == accumulator + FrameTimeOf(last'.arg)
             dt == Ms(1000) \div props.speed
             due == a \div dt
             done == Min(5, due)
         IN  /\ absoluteFrameRef' = absoluteFrameRef + done
             /\ droppedFramesRef' = droppedFramesRef + (due - done)
             /\ accumulator' = a % dt
             /\ 0 <= accumulator' /\ accumulator' < dt]_vars

\* C1 witness: speed 10, accumulator 0, a tick 650 ms after the last one gave
\* 5 frames, accumulator 50 ms and one dropped frame
C1_Witness ==
    /\ last.op = "tick" /\ last.arg = Ms(650)
    /\ props.speed = 10 /\ ~props.isPaused
    /\ absoluteFrameRef = 5 /\ accumulator = Ms(50) /\ droppedFramesRef = 1

\* C2: the timeline window always satisfies 0 <= size <= 600 and start >= 0.
C2_WindowBounds ==
    /\ 0 <= windowSizeRef /\ windowSizeRef <= 600
    /\ windowStartFrameRef >= 0

\* C2 witness: a stepForward at capacity has just slid the full window
C2_Witness ==
    /\ last.op = "stepForward"
    /\ windowSizeRef = 600 /\ windowStartFrameRef = 1 /\ absoluteFrameRef = 600

\* C3: after the frames 0..n have been rendered in ascending order from an
\* empty window, size = min(n+1, 600) and start = max(0, n+1-600).
C3_WindowGrowth ==
    /\ windowSizeRef = Min(absoluteFrameRef + 1, 600)
    /\ windowStartFrameRef = Max(0, absoluteFrameRef + 1 - 600)

\* C3 witness: frames 0..699 give start 100 and size 600
C3_Witness ==
    /\ last.op = "tick" /\ absoluteFrameRef = 699
    /\ windowStartFrameRef = 100 /\ windowSizeRef = 600

\* C4: ensureContains(f) on a non-empty window with f < start changes
\* neither start nor size.
C4_ClampBelow ==
    [][(last'.op = "ensureContains" /\ windowSizeRef > 0
        /\ last'.arg < windowStartFrameRef) =>
         /\ windowStartFrameRef' = windowStartFrameRef
         /\ windowSizeRef' = windowSizeRef]_vars

\* C4 witness: frame 300 was requested of a full window that starts at 701
C4_Witness ==
    /\ last.op = "ensureContains" /\ last.arg = 300
    /\ windowStartFrameRef = 701 /\ windowSizeRef = 600

\* the window-relative index seekToFrame(i) resolves to in a window of the given size
SeekResult(i, size) ==
    IF i < 0 THEN 0 ELSE IF i >= size THEN size - 1 ELSE i

\* C5 as stated: after seekToFrame(i), getCurrentFrameIndex() is 0 when i < 0,
\* size-1 when i >= size, and i otherwise.
C5_SeekClampAsStated ==
    [][(last'.op = "seekToFrame") =>
         absoluteFrameRef' - windowStartFrameRef' = SeekResult(last'.arg, windowSizeRef)]_vars

\* C5 amended: the same on a non-empty window; on an empty window
\* seekToFrame(i) resolves to index 0 for every i. The window is unchanged.
C5_SeekClamp ==
    [][(last'.op = "seekToFrame") =>
         /\ absoluteFrameRef' - windowStartFrameRef' =
                IF windowSizeRef = 0 THEN 0 ELSE SeekResult(last'.arg, windowSizeRef)
         /\ absoluteFrameRef' =
                Max(windowStartFrameRef,
                    Min(windowStartFrameRef + last'.arg,
                        windowStartFrameRef + Max(windowSizeRef, 1) - 1))
         /\ windowStartFrameRef' = windowStartFrameRef
         /\ windowSizeRef' = windowSizeRef]_vars

\* C5 witness: seekToFrame(size+5) on a window of several frames resolved to size-1
C5_Witness ==
    /\ last.op = "seekToFrame" /\ last.arg = windowSizeRef + 5
    /\ windowSizeRef > 2
    /\ getCurrentFrameIndex = windowSizeRef - 1

\* C6: stepBackward sets the frame index to max(windowStart, index - 1),
\* never below the window start.
C6_StepBackwardClamp ==
    [][(last'.op = "stepBackward") =>
         /\ absoluteFrameRef' = Max(windowStartFrameRef, absoluteFrameRef - 1)
         /\ (absoluteFrameRef > windowStartFrameRef =>
                 absoluteFrameRef' = absoluteFrameRef - 1)
         /\ (absoluteFrameRef = windowStartFrameRef =>
                 absoluteFrameRef' = absoluteFrameRef)
         /\ absoluteFrameRef' >= windowStartFrameRef
         /\ absoluteFrameRef' >= windowStartFrameRef']_vars

\* C6 witness: a stepBackward at the start of a slid window stayed there
C6_Witness ==
    /\ last.op = "stepBackward" /\ last.before = <<>>
    /\ windowStartFrameRef > 0 /\ windowSizeRef = 600
    /\ absoluteFrameRef = windowStartFrameRef

\* C7: the step-forward control leaves the frame index one above its value
\* before the call, and the scheduler Paused, whether it was Playing or Paused.
C7_StepForwardControl ==
    [][(last'.op = "handleStepForward") =>
         /\ absoluteFrameRef' = absoluteFrameRef + 1
         /\ props'.isPaused]_vars

\* C8: stepForward() immediately followed by stepBackward() leaves the frame
\* index where it was before the stepForward.
C8_BackwardConsistency ==
    (last.op = "stepBackward" /\ last.before # <<>>) =>
        absoluteFrameRef = last.before[1]

\* C8 witness: at frame 599 of the full window [0, 600) a stepForward slid the
\* window to [1, 601) and the stepBackward returned to frame 599
C8_Witness ==
    /\ last.op = "stepBackward" /\ last.before = <<599>>
    /\ windowStartFrameRef = 1 /\ windowSizeRef = 600
    /\ absoluteFrameRef = 599

\* C9: the reported position always lies inside the reported timeline:
\* 0 <= getCurrentFrameIndex() <= max(0, getTotalFrames() - 1).
C9_PositionInTimeline ==
    /\ 0 <= getCurrentFrameIndex
    /\ getCurrentFrameIndex <= Max(0, getTotalFrames - 1)

SettingChanges == {"togglePause", "handleStepForward", "setSpeed"}

\* C11: pausing, resuming or changing a setting other than the seed leaves
\* the base seed unchanged.
C11_SeedKept ==
    [][(last'.op \in SettingChanges) => baseSeedRef' = baseSeedRef]_vars

\* C12: a change of the surface size replaces the base seed by a fresh random
\* draw, sets the frame index to 0 and resets the window; after the render of
\* frame 0 on a surface of non-zero area the window is start 0, size 1.
C12_ResizeResets ==
    [][(last'.op = "resize") =>
         /\ canvas' # canvas
         /\ baseSeedRef' = (IF last'.arg = 0 THEN 1 ELSE last'.arg)
         /\ absoluteFrameRef' = 0
         /\ windowStartFrameRef' = 0
         /\ windowSizeRef' = (IF canvas'.width = 0 \/ canvas'.height = 0 THEN 0 ELSE 1)]_vars

\* C12 witness: a resize to a surface of non-zero area, with a random draw of 0
C12_Witness ==
    /\ last.op = "resize" /\ last.arg = 0
    /\ canvas = [width |-> 2, height |-> 2]
    /\ baseSeedRef = 1 /\ absoluteFrameRef = 0
    /\ windowStartFrameRef = 0 /\ windowSizeRef = 1

\* C13: a change of the surface size resets the playback state with the seed,
\* the frame index and the window: the accumulator, the dropped frame count,
\* the measured fps and the frame of the fps sample anchor are 0 again, and
\* the anchor's timestamp is 0 or the time of the reset.
C13_ResizeResetsPlayback ==
    [][(last'.op = "resize") =>
         /\ accumulator' = 0
         /\ droppedFramesRef' = 0
         /\ actualFpsRef' = 0
         /\ lastFrameCountRef' = 0
         /\ lastFpsUpdateTimeRef' \in {0, clock'}]_vars

\* C14: a change of speed leaves the accumulator and the frame index as they
\* were.
C14_SpeedKeepsAccumulator ==
    [][(last'.op = "setSpeed") =>
         /\ accumulator' = accumulator
         /\ absoluteFrameRef' = absoluteFrameRef]_vars

\* C15: every render performed by a tick reads the settings that are current
\* at that tick's start, whichever setting the control surface changed before.
C15_TickReadsCurrentSettings ==
    [][(last'.op = "tick" /\ absoluteFrameRef' # absoluteFrameRef
        /\ canvas.width # 0 /\ canvas.height # 0) =>
         renderedWith' = <<Settings(props)>>]_vars

\* C16: a tick received while Paused sets the accumulator to 0, renders no
\* frame and leaves the frame index, the window, the dropped frame count and
\* the measured fps (with its sample anchor) unchanged; the first tick after
\* playback is resumed renders and drops nothing for the time spent paused.
C16_PausedTick ==
    [][(last'.op = "tick") =>
         /\ props.isPaused =>
                /\ accumulator' = 0
                /\ UNCHANGED <<absoluteFrameRef, windowStartFrameRef, windowSizeRef,
                               droppedFramesRef, actualFpsRef, lastFrameCountRef,
                               lastFpsUpdateTimeRef, baseSeedRef, canvas, renderedWith>>
         /\ (last.op = "togglePause" /\ ~props.isPaused) =>
                /\ accumulator' = 0
                /\ UNCHANGED <<absoluteFrameRef, droppedFramesRef>>]_vars

\* C16 witness: paused at frame 2, a tick 650 ms after the previous one
C16_Witness ==
    /\ last.op = "tick" /\ last.arg = Ms(650)
    /\ props.isPaused /\ lastTime # 0
    /\ absoluteFrameRef = 2 /\ accumulator = 0 /\ droppedFramesRef = 0

\* C17: while Playing, the measured fps changes only in a tick at least
\* 1000 ms after the previous sample, each sample is the frame index minus
\* the frame index recorded at the previous sample, and after 1000 ms of
\* uninterrupted playback at speed 30 without drops getActualFps() reports
\* 30, give or take 1.
C17_FpsSampling ==
    /\ [][(last'.op = "tick" /\ ~props.isPaused) =>
            IF clock' - lastFpsUpdateTimeRef >= Ms(1000)
            THEN /\ actualFpsRef' = absoluteFrameRef' - lastFrameCountRef
                 /\ lastFrameCountRef' = absoluteFrameRef'
                 /\ lastFpsUpdateTimeRef' = clock'
            ELSE UNCHANGED <<actualFpsRef, lastFrameCountRef, lastFpsUpdateTimeRef>>]_vars
    /\ []((/\ clock = PlayedClock(1) + Ms(1000)
           /\ props.speed = 30 /\ ~props.isPaused /\ droppedFramesRef = 0
           /\ absoluteFrameRef = 30)
          => actualFpsRef \in 29..31)

\* the tags with a case in the switch of applyDistortion, in renderFrame's
\* pattern switch
DistortionCases == {"cyberpunk", "vortex", "matrix", "chromatic-aberration", "scanlines",
                    "noise-overlay", "pixelate", "fisheye"}
PatternCases == {"pixels", "horizontal-lines", "vertical-lines", "static", "glitch",
                 "checkerboard", "diagonal", "waves", "blocks", "scanlines", "plasma",
                 "cellular", "fbm", "domain-warp", "ridged", "halftone", "hatching",
                 "moire", "gradient-bands", "metaballs"}

C19_DefaultIsPixels ==
    (staged # <<>> /\ props.pattern \notin PatternCases)
        => renderPixels(Gen, rngState, [props EXCEPT !.pattern = "pixels"],
                        absoluteFrameRef, staged.twist)
               = [staged |-> staged, shown |-> [rngState |-> rngState, pixels |-> pixels]]

\* a coloured frame rendered under a tag without a case
C19_Witness ==
    /\ staged # <<>>
    /\ props.pattern = "perlin"
    /\ props.colorMode = "rgb"
    /\ props.distortion = "none"
    /\ absoluteFrameRef = 2
    /\ pixels[1][1] # pixels[1][2]
    /\ pixels[1] # pixels[2]
    /\ pixels = paintFrame(Gen, rngState, [props EXCEPT !.pattern = "pixels"], 2).pixels

\* the point pixel (x, y) is resampled from, as the fisheye computes it: on
\* says whether the pixel is resampled at all
FisheyePoint(x, y, d, m) ==
    [on |-> d < m,
     nx |-> 10 * m * canvas.width
                + (2 * x - canvas.width) * (10 * m + props.distortionParams.intensity * d),
     ny |-> 10 * m * canvas.height
                + (2 * y - canvas.height) * (10 * m + props.distortionParams.intensity * d),
     unit |-> 20 * m]

\* and as the vortex computes it, with the turn the render made at the distance
VortexPoint(x, y, d, turn) ==
    [on |-> withinRadius(d, canvas, props.distortionParams.secondary),
     nx |-> 5 * canvas.width + turn[1] * (2 * x - canvas.width)
                             - turn[2] * (2 * y - canvas.height),
     ny |-> 5 * canvas.height + turn[2] * (2 * x - canvas.width)
                              + turn[1] * (2 * y - canvas.height),
     unit |-> 10]

SourcePoint(x, y, d) ==
    IF props.distortion = "fisheye"
    THEN FisheyePoint(x, y, d, canvas.width * canvas.width + canvas.height * canvas.height)
    ELSE VortexPoint(x, y, d, turnAt(staged.twist, d))

\* the index of the pixel under a point, k when the point is off the canvas
\* or the pixel is not resampled
PixelUnder(pt, k) ==
    IF /\ pt.on
       /\ 0 <= pt.nx /\ pt.nx < canvas.width * pt.unit
       /\ 0 <= pt.ny /\ pt.ny < canvas.height * pt.unit
    THEN (pt.ny \div pt.unit) * canvas.width + (pt.nx \div pt.unit) + 1
    ELSE k

\* the pixel of the pre-distortion buffer that channel c of pixel k (counted
\* from 1) takes its value from
SourceOf(k, c, x, y, offset) ==
    IF props.distortion = "chromatic-aberration"
    THEN IF c = 1 /\ x - offset >= 0 THEN k - offset
         ELSE IF c = 3 /\ x + offset < canvas.width THEN k + offset
         ELSE k
    ELSE IF c = 4 THEN k
         ELSE PixelUnder(SourcePoint(x, y, DistSq(2 * x - canvas.width, 2 * y - canvas.height)), k)

\* C20: under the chromatic aberration, the vortex and the fisheye every
\* channel of every pixel on the canvas has the value the pre-distortion
\* buffer holds at the pixel's source, and the value it holds at the pixel
\* itself when the source point lies off the canvas; the source is never a
\* pixel of a neighbouring row reached by running over the row's end, nor an
\* edge pixel reached by clamping.
C20_Resampling ==
    (staged # <<>> /\ props.distortion \in {"chromatic-aberration", "vortex", "fisheye"})
        => \A k \in 1..Len(pixels), c \in 1..4 :
               pixels[k][c] = staged.pixels[SourceOf(k, c, (k - 1) % canvas.width,
                                                     (k - 1) \div canvas.width,
                                                     Max(1, props.distortionParams.intensity))][c]

\* the chromatic aberration by one pixel: the red of the second pixel comes
\* from the first, the first pixel of the second row keeps its red although
\* the last pixel of the first row has another, and the last pixel of a row
\* keeps its blue
C20_Witness ==
    /\ staged # <<>>
    /\ props.distortion = "chromatic-aberration"
    /\ props.distortionParams.intensity = 1
    /\ canvas = MountSize
    /\ pixels[2][1] = staged.pixels[1][1]
    /\ pixels[2][1] # staged.pixels[2][1]
    /\ pixels[5][1] = staged.pixels[5][1]
    /\ pixels[5][1] # staged.pixels[4][1]
    /\ pixels[4][3] = staged.pixels[4][3]
    /\ pixels[4][3] # staged.pixels[5][3]

\* C21: without a rendering context stepForward, stepBackward and
\* seekToFrame change nothing at all; on a canvas of zero area a transport
\* call's render writes no pixels and leaves the start and the size of the
\* timeline window as they were.
C21_NothingToRenderOn ==
    [][/\ ~context => UNCHANGED vars
       /\ (canvas' = canvas /\ (canvas.width = 0 \/ canvas.height = 0))
              => UNCHANGED <<pixels, rngState, staged, windowStartFrameRef, windowSizeRef>>]_vars

\* a transport call has moved the frame index on a canvas of zero area, the
\* window still empty and no pixels on the canvas
C21_Witness ==
    /\ context
    /\ canvas.width = 0
    /\ absoluteFrameRef = 2
    /\ windowSizeRef = 0
    /\ windowStartFrameRef = 0
    /\ pixels = <<>>

\* C22: pausing playback and resuming it, with no resize and no change of
\* seed, leaves the frame index and the timeline window as they were when
\* playback was paused: neither press of the play/pause button moves the
\* frame index or the window, and the frame index never decreases.
C22_PauseKeepsPosition ==
    [][(last'.op = "togglePause") =>
           /\ absoluteFrameRef' = absoluteFrameRef
           /\ windowStartFrameRef' = windowStartFrameRef
           /\ windowSizeRef' = windowSizeRef]_vars

\* C23: a Playing tick conserves elapsed time: the frames it advances and the
\* frames it adds to the dropped frame count, times fixedDt, plus the
\* accumulator it leaves, equal the accumulator it found plus its frame time.
\* Summed over a run of consecutive Playing ticks this is the conservation
\* over the run.
C23_TimeConserved ==
    [][(last'.op = "tick" /\ ~props.isPaused) =>
           ((absoluteFrameRef' - absoluteFrameRef) + (droppedFramesRef' - droppedFramesRef))
                   * fixedDt(props.speed) + accumulator'
               = accumulator + FrameTimeOf(last'.arg)]_vars

\* a tick at speed 30, 650 ms after the one before: 5 frames advanced, 14
\* dropped and a sixth of a frame period left in the accumulator
C23_Witness ==
    /\ last.op = "tick" /\ last.arg = Ms(650)
    /\ props.speed = 30 /\ ~props.isPaused
    /\ absoluteFrameRef = 5 /\ droppedFramesRef = 14 /\ accumulator = 50
    /\ 19 * fixedDt(30) + accumulator = Ms(650)

\* C24: whenever a stepForward or a tick renders a frame at or past the end
\* of a non-empty window, the window's end becomes that frame plus one and
\* the new start is max(old start, frame + 1 - 600); and no tick, stepForward,
\* stepBackward or seekToFrame ever moves the start of the window backward.
C24_WindowStartForward ==
    [][/\ (/\ last'.op \in {"tick", "stepForward"}
           /\ canvas.width # 0 /\ canvas.height # 0
           /\ windowSizeRef > 0
           /\ absoluteFrameRef' >= windowStartFrameRef + windowSizeRef)
          => /\ windowStartFrameRef' + windowSizeRef' = absoluteFrameRef' + 1
             /\ windowStartFrameRef' = Max(windowStartFrameRef, absoluteFrameRef' + 1 - 600)
       /\ (last'.op \in {"tick", "stepForward", "stepBackward", "seekToFrame"})
          => windowStartFrameRef' >= windowStartFrameRef]_vars

\* frame 641 rendered past the end of the full window [41, 641): the start
\* has moved to 42
C24_Witness ==
    /\ last.op = "stepForward" /\ last.before = <<640>>
    /\ absoluteFrameRef = 641
    /\ windowStartFrameRef = 42 /\ windowSizeRef = 600

\* C25: the host has at most one tick callback pending at any time, and a
\* pending callback is always the latest request of the current loop: once a
\* loop is torn down, by the component's removal or by the effect running
\* again after a settings change, none of its callbacks is pending, so none
\* runs again.
C25_OneLoop ==
    /\ Cardinality(host.pending) <= 1
    /\ \A c \in host.pending : c.loop = host.loop /\ c.id = host.animationFrameRef
    /\ host.torn = <<>>

\* the component removed after a settings change and some playback: nothing
\* is pending
C25_Witness ==
    /\ last.op = "unmount"
    /\ host.loop = 0
    /\ host.pending = {}
    /\ host.animationFrameRef # 0
    /\ props.speed = 10
    /\ absoluteFrameRef > 0

\* C26: getActualFps() is never negative, whatever ticks, settings changes
\* and seeks came before.
C26_FpsNonNegative == actualFpsRef >= 0

\* C27: for a fixed base seed the derived seeds of consecutive frame indices
\* differ, so the render of the next frame runs on a different generator
\* stream; with base seed 42, 'pixels', 'monochrome' and pixelSize 10 on a
\* 100x100 canvas the buffers of consecutive frames, 5 and 6 among them, differ.
C27_FrameSeedsDiffer ==
    [][(absoluteFrameRef' = absoluteFrameRef + 1) =>
           /\ baseSeedRef' = baseSeedRef
           /\ mixSeed(baseSeedRef, absoluteFrameRef') # mixSeed(baseSeedRef, absoluteFrameRef)
           /\ rngState' # rngState
           /\ (baseSeedRef = 42 /\ canvas = [width |-> 100, height |-> 100])
                  => pixels' # pixels]_vars

C27_Witness ==
    /\ baseSeedRef = 42
    /\ canvas = [width |-> 100, height |-> 100]
    /\ props.pixelSize = 10 /\ props.colorMode = "monochrome" /\ props.pattern = "pixels"
    /\ absoluteFrameRef = 6
    /\ windowSizeRef = 7
    /\ Len(pixels) = 10000
    /\ rngState = Add32(mixSeed(42, 6), Imul[ToWord(100), <<27947, 31221>>])

\* C28: whatever the pattern and the block size, the pattern stage leaves
\* every pixel of the canvas-sized buffer opaque (alpha 255): none is left
\* as allocated, and the buffer is exactly width * height pixels.
C28_EveryPixelOpaque ==
    /\ Len(staged.pixels) = canvas.width * canvas.height
    /\ \A i \in DOMAIN staged.pixels : staged.pixels[i][4] = 255

\* what a call of exportGif has done so far: its callbacks invoked, the
\* frames it has added
Done(x, e) ==
    <<x.calls[e].onProgress, x.calls[e].onComplete, x.calls[e].onError, x.calls[e].i>>

\* C29: once abort() has been called, the export that was in progress invokes
\* none of its callbacks and adds no frame any more.
C29_AbortSilences ==
    [][\A e \in exporter.stopped : Done(exporter', e) = Done(exporter, e)]_vars

\* C30: a new export stops the one still capturing: from then on the earlier
\* call invokes none of its callbacks and adds no frame, every frame of an
\* encoder comes from the capture loop of the call that created it, and no
\* encoder is rendered more than once.
C30_NewExportSupersedes ==
    [][/\ \A e \in exporter.superseded : Done(exporter', e) = Done(exporter, e)
       /\ \A k \in DOMAIN exporter'.encoders :
              /\ exporter'.encoders[k].renders <= 1
              /\ \A f \in DOMAIN exporter'.encoders[k].frames :
                     exporter'.encoders[k].frames[f] = k]_vars

====
